---- MODULE Spec2Model ----
(***************************************************************************)
(* Text-Extractor: the Flask OCR service (src/app.py), its helper library  *)
(* (src/utils/img_processing.py) and the request registry                  *)
(* (src/model/ocr_model.py).                                               *)
(*                                                                         *)
(* Spec         the upload folder, the HTTP handlers and the OCR step, one *)
(*              file-system call per step, with uploads and /cleanup       *)
(*              interleaved between the steps of a request.                *)
(* SpecExport   the exporters applied to a text, the loops of the PDF      *)
(*              exporters one iteration per step: every text up to MaxLen  *)
(*              characters and texts of up to MaxLines lines.              *)
(* SpecCleanup  cleanup_files of the helper library against a clock and    *)
(*              files saved while a sweep is in progress.                  *)
(* SpecManager  ConversionManager: create_request, update_request and      *)
(*              cleanup_old_requests in any order, against a clock.        *)
(* SpecConc     two requests for the same stored image, their steps        *)
(*              interleaved in every order.                                *)
(***************************************************************************)
EXTENDS Integers, Sequences, FiniteSets, TLC

VARIABLES
    files,      \* the upload folder: path -> content, or Absent
    req,        \* per worker: the request being handled and its locals
    resp,       \* per worker: the response of the last finished request
    doc,        \* SpecExport: the text handed to an exporter
    artifact,   \* SpecExport: what the exporter built from it
    folder,     \* SpecCleanup: entry -> [kind, mtime]
    now,        \* SpecCleanup: the clock, in ticks
    sweep,      \* SpecCleanup: the locals of the cleanup_files call in progress
    report,     \* SpecCleanup: what the last cleanup_files call returned
    requests,   \* SpecManager: ConversionManager.requests, filename -> request
    hour,       \* SpecManager: the clock, in hours
    nextId,     \* SpecManager: the number of the next uuid4 drawn
    ret         \* SpecManager: the last call of the manager and what it returned

pipelineVars == <<files, req, resp>>
exportVars == <<doc, artifact>>
cleanupVars == <<folder, now, sweep, report>>
managerVars == <<requests, hour, nextId, ret>>

vars == <<pipelineVars, exportVars, cleanupVars, managerVars>>

\* the variables a specification leaves alone
outsidePipeline == <<exportVars, cleanupVars, managerVars>>
outsideExport == <<pipelineVars, cleanupVars, managerVars>>
outsideCleanup == <<pipelineVars, exportVars, managerVars>>
outsideManager == <<pipelineVars, exportVars, cleanupVars>>

----------------------------------------------------------------------------
(* The request handlers in flight *)

Workers == {"w1", "w2"}

\* the workers of Spec: one request at a time, against uploads and /cleanup
Serial == {"w1"}

----------------------------------------------------------------------------
(* Text: a Python str is a sequence of one-character strings *)

Whitespace == {" ", "\n", "\t"}

\* the literal "Error extracting text" returned by the except clause of
\* extract_text_with_tesseract
Sentinel ==
    <<"E", "r", "r", "o", "r", " ", "e", "x", "t", "r", "a", "c", "t", "i", "n", "g",
      " ", "t", "e", "x", "t">>

RECURSIVE LStrip(_)
LStrip(t) ==
    IF t = <<>> THEN <<>>
    ELSE IF Head(t) \in Whitespace THEN LStrip(Tail(t)) ELSE t

RECURSIVE RStrip(_)
RStrip(t) ==
    IF t = <<>> THEN <<>>
    ELSE IF t[Len(t)] \in Whitespace THEN RStrip(SubSeq(t, 1, Len(t) - 1)) ELSE t

\* str.strip()
Strip(t) == RStrip(LStrip(t))

\* index of the first element of t that is in set S, Len(t) + 1 if none
FirstIn(t, S) ==
    IF \E i \in 1..Len(t) : t[i] \in S
    THEN CHOOSE i \in 1..Len(t) : t[i] \in S /\ \A j \in 1..(i - 1) : t[j] \notin S
    ELSE Len(t) + 1

\* str.splitlines in place of str.split('\n'): no segment after a final newline
SplitLines(t) ==
    LET breaks == {i \in 1..Len(t) : t[i] = "\n"}
        nth(k) == CHOOSE i \in breaks : Cardinality({j \in breaks : j < i}) = k - 1
        from(k) == IF k = 1 THEN 1 ELSE nth(k - 1) + 1
        to(k) == IF k = Cardinality(breaks) + 1 THEN Len(t) ELSE nth(k) - 1
        n == IF t = <<>> \/ t[Len(t)] = "\n"
             THEN Cardinality(breaks) ELSE Cardinality(breaks) + 1
    IN  [k \in 1..n |-> SubSeq(t, from(k), to(k))]

\* str.split('\n'): the segments between newlines, empty ones included; the
\* k-th segment runs from after the (k-1)-th newline to before the k-th
SplitNewline(t) ==
    LET breaks == {i \in 1..Len(t) : t[i] = "\n"}
        nth(k) == CHOOSE i \in breaks : Cardinality({j \in breaks : j < i}) = k - 1
        from(k) == IF k = 1 THEN 1 ELSE nth(k - 1) + 1
        to(k) == IF k = Cardinality(breaks) + 1 THEN Len(t) ELSE nth(k) - 1
    IN  [k \in 1..(Cardinality(breaks) + 1) |-> SubSeq(t, from(k), to(k))]

\* str.split(): the maximal runs of non-whitespace characters; the k-th runs
\* from the k-th position that follows whitespace to before the next whitespace
SplitWhitespace(t) ==
    LET starts == {i \in 1..Len(t) :
                     t[i] \notin Whitespace /\ (i = 1 \/ t[i - 1] \in Whitespace)}
        nth(k) == CHOOSE i \in starts : Cardinality({j \in starts : j < i}) = k - 1
        stop(i) == i + FirstIn(SubSeq(t, i, Len(t)), Whitespace) - 2
    IN  [k \in 1..Cardinality(starts) |-> SubSeq(t, nth(k), stop(nth(k)))]

----------------------------------------------------------------------------
(* Exporters *)

\* the width budget of a line in export_pdf
PageBudget == 450

\* the lowest vertical position a line is drawn at
BottomMargin == 50

\* the vertical position of the first line of a page
TopOffset == 750

\* the vertical position of the first line below the header of convert_to_pdf
HeaderOffset == 760

LineStep == 15

\* the font metric: the width of a character, in points
CharWidth(c) == IF c = " " THEN 4 ELSE IF c = "W" THEN 460 ELSE 222

\* pdf.stringWidth(s, "Helvetica", 12)
RECURSIVE stringWidth(_)
stringWidth(s) == IF s = <<>> THEN 0 ELSE CharWidth(Head(s)) + stringWidth(Tail(s))

\* the inner loop of export_pdf: the words of one paragraph onto lines
RECURSIVE WrapWords(_, _, _)
WrapWords(words, line, lines) ==
    IF words = <<>>
    THEN IF line # <<>> THEN Append(lines, line) ELSE lines
    ELSE LET word == Head(words)
         IN  IF stringWidth(line \o word) < PageBudget
             THEN WrapWords(Tail(words), line \o word \o <<" ">>, lines)
             ELSE WrapWords(Tail(words), word \o <<" ">>, Append(lines, line))

\* a page break only once the cursor has left the page
NeedsNewPageLate(y) == y < 0

\* "if y < 50": the cursor has fallen below the bottom margin
NeedsNewPage(y) == y < BottomMargin

\* export_pdf before its loops: the canvas, the paragraphs of the text, no
\* line yet, the cursor at 750
StartExportPdf(filename, text) ==
    [kind |-> "pdf", filename |-> filename, phase |-> "wrap",
     paragraphs |-> SplitNewline(text), wi |-> 1, lines |-> <<>>,
     start |-> TopOffset, di |-> 1, y |-> TopOffset, page |-> 1, drawn |-> <<>>]

\* convert_to_pdf before its loop: the canvas, the lines of the text, the
\* header drawn, the cursor at 760
StartConvertToPdf(text, filename) ==
    [kind |-> "pdf", filename |-> filename, phase |-> "draw",
     paragraphs |-> <<>>, wi |-> 1, lines |-> SplitNewline(text),
     start |-> HeaderOffset, di |-> 1, y |-> HeaderOffset, page |-> 1, drawn |-> <<>>]

\* one iteration: of "for paragraph in text.split('\n')", then of
\* "for line in lines" (a page break when needed, drawString, the cursor 15
\* points down), then pdf.save()
PdfStep(j) ==
    IF j.phase = "wrap"
    THEN IF j.wi <= Len(j.paragraphs)
         THEN [j EXCEPT !.wi = j.wi + 1,
                        !.lines = WrapWords(SplitWhitespace(j.paragraphs[j.wi]), <<>>, j.lines)]
         ELSE [j EXCEPT !.phase = "draw"]
    ELSE IF j.di <= Len(j.lines)
         THEN LET brk == NeedsNewPage(j.y)
                  yy == IF brk THEN TopOffset ELSE j.y
                  pg == IF brk THEN j.page + 1 ELSE j.page
              IN  [j EXCEPT !.di = j.di + 1, !.y = yy - LineStep, !.page = pg,
                            !.drawn = Append(j.drawn,
                                             [page |-> pg, y |-> yy, line |-> j.lines[j.di]])]
         ELSE [j EXCEPT !.phase = "done"]

\* the loops run to the end
RECURSIVE PdfRun(_)
PdfRun(j) == IF j.phase = "done" THEN j ELSE PdfRun(PdfStep(j))

\* the PDF of export_pdf: wrapped lines, drawn from 750 down
PdfBody(filename, text) == PdfRun(StartExportPdf(filename, text))

\* the PDF of convert_to_pdf: the lines of the text, drawn from 760 down
convert_to_pdf(text, filename) == PdfRun(StartConvertToPdf(text, filename))

\* the dictionary of export_json
JsonBody(filename, text) ==
    [kind |-> "json", filename |-> filename, text |-> text,
     character_count |-> Len(text),
     word_count |-> Len(SplitWhitespace(text)),
     line_count |-> Len(SplitNewline(text))]

convert_to_json(text, filename) ==
    [kind |-> "json", filename |-> filename, text |-> text,
     character_count |-> Len(text),
     line_count |-> Len(SplitNewline(text))]

\* the element tree of export_xml
XmlBody(filename, text) ==
    [kind |-> "xml", filename |-> filename, text |-> text,
     character_count |-> Len(text),
     word_count |-> Len(SplitWhitespace(text)),
     line_count |-> Len(SplitNewline(text))]

convert_to_xml(text, filename) ==
    [kind |-> "xml", filename |-> filename, text |-> text,
     character_count |-> Len(text),
     line_count |-> Len(SplitNewline(text))]

----------------------------------------------------------------------------
(* The upload folder *)

Absent == "absent"

\* what a stored file holds: an image within 1200x1200, a larger image, the
\* output of resize_image, bytes no codec decodes, or a binarized derivative
Contents == {"small", "large", "resized", "junk", "binary"}

Decodable == {"small", "large", "resized", "binary"}

Photo == [stem |-> "photo", ext |-> "png"]
Capture == [stem |-> "capture", ext |-> "jpg"]
Notes == [stem |-> "notes", ext |-> "txt"]

Names == {Photo, Capture, Notes}

\* os.path.join(UPLOAD_FOLDER, f"processed_{os.path.basename(image_path)}")
ProcessedPath(n) == [stem |-> "processed_" \o n.stem, ext |-> n.ext]

Paths == Names \cup {ProcessedPath(n) : n \in Names}

Exists(fs, path) == fs[path] # Absent

Lower(e) == CASE e = "PNG" -> "png" [] e = "JPG" -> "jpg" [] OTHER -> e

ALLOWED_EXTENSIONS == {"png", "jpg", "jpeg", "bmp", "tiff"}

allowed_file(n) == Lower(n.ext) \in ALLOWED_EXTENSIONS

\* what the OCR backend can recognise in an image
OcrOutputs == {<<>>, <<" ", "a", "\n", "b", "\n">>, <<"a", " ", "b">>}

----------------------------------------------------------------------------
(* Requests *)

Idle ==
    [pc |-> "idle", route |-> "none", name |-> Photo, path |-> Photo,
     raw |-> <<>>, text |-> <<>>, wrote |-> FALSE, validAtEntry |-> FALSE,
     failed |-> FALSE, error |-> "none"]

NoResp == [status |-> 0, route |-> "none"]

\* the allow-set extract_text_from_image passes to validate_image_file
EXTRACT_EXTENSIONS == {"png", "jpg", "jpeg", "bmp", "gif"}

\* the placeholder text extract_text_from_image returns
MockText == <<"m", "o", "c", "k">>

\* validate_image_file(filepath, allowed_extensions)
validate_image_file(fs, n, allowed) ==
    IF ~Exists(fs, n) THEN "File does not exist"
    ELSE IF Lower(n.ext) \notin allowed THEN "File type not allowed"
    ELSE IF fs[n] \notin Decodable THEN "Invalid image file"
    ELSE "Valid image file"

\* an except clause that lets the exception leave the function
ExceptClausePropagates(r, e) ==
    [r EXCEPT !.pc = "raised", !.failed = TRUE, !.error = e]

\* the except clause of extract_text_with_tesseract: print, return the sentinel
ExceptClause(r, e) ==
    [r EXCEPT !.pc = "extracted", !.text = Sentinel, !.failed = TRUE, !.error = e]

\* "except Exception as e: return jsonify({'error': str(e)}), 500"
HandlerExcept(e) == [status |-> 500, body |-> [kind |-> "error", error |-> e]]

\* abort(404) raises NotFound inside the handler's try block
Abort404 == HandlerExcept("404 Not Found")

Response(r, n, a, f, out) ==
    [status |-> out.status, route |-> r, name |-> n, body |-> out.body,
     absentAtEntry |-> a, failed |-> f]

\* the locals of a request that has passed the existence check
Enter(r, n, allowed) ==
    [Idle EXCEPT !.pc = "preprocess", !.route = r, !.name = n, !.path = n,
                 !.validAtEntry = (validate_image_file(files, n, allowed) = "Valid image file")]

Finished == [Idle EXCEPT !.pc = "done"]

Ready(p) == req[p].pc \in {"idle", "done"}

----------------------------------------------------------------------------
(* State of the exporter and cleanup specifications *)

NoArtifact == [kind |-> "none"]

\* the entries of the folder cleanup_files sweeps: two files and a directory
SubDir == "sub"

Entries == {"x.png", "y.png", SubDir}

\* an entry the folder does not hold
Gone == [kind |-> "absent", mtime |-> 0]

NoSweep == [pc |-> "idle"]

NoReport == [kind |-> "none"]

\* the filenames the manager is called with
ManagerFiles == {"a.png", "b.png"}

\* a filename with no entry in ConversionManager.requests
Unregistered ==
    [id |-> 0, filename |-> "", original_path |-> "", text_result |-> "None",
     created_at |-> 0, processed_at |-> 0 - 1, status |-> "unregistered",
     wasProcessing |-> FALSE]

NoCall == [op |-> "none", filename |-> "", value |-> FALSE]

TypeOK ==
    /\ files \in [Paths -> Contents \cup {Absent}]
    /\ \A p \in Workers : req[p].pc \in
          {"idle", "preprocess", "ocr", "check", "remove", "extracted", "resize",
           "done", "raised"}

InitPipeline ==
    /\ files = [x \in Paths |-> Absent]
    /\ req = [p \in Workers |-> Idle]
    /\ resp = [p \in Workers |-> NoResp]

InitExport ==
    /\ doc = <<>>
    /\ artifact = NoArtifact

InitCleanup ==
    /\ folder = [e \in Entries |-> IF e = SubDir THEN [kind |-> "dir", mtime |-> 0] ELSE Gone]
    /\ now = 0
    /\ sweep = NoSweep
    /\ report = NoReport

\* ConversionManager.__init__: self.requests = {}
InitManager ==
    /\ requests = [f \in ManagerFiles |-> Unregistered]
    /\ hour = 0
    /\ nextId = 1
    /\ ret = NoCall

Init == InitPipeline /\ InitExport /\ InitCleanup /\ InitManager

(* POST /convert, up to the call of extract_text_with_tesseract *)
convert_image_to_text(p, n, hasFilename) ==
    /\ UNCHANGED outsidePipeline
    /\ Ready(p)
    /\ IF ~hasFilename
       THEN /\ resp' = [resp EXCEPT ![p] =
                    Response("convert", n, FALSE, FALSE,
                             [status |-> 400,
                              body |-> [kind |-> "error", error |-> "No filename provided"]])]
            /\ req' = [req EXCEPT ![p] = Finished]
       ELSE IF ~Exists(files, n)
       THEN /\ resp' = [resp EXCEPT ![p] =
                    Response("convert", n, TRUE, FALSE,
                             [status |-> 404,
                              body |-> [kind |-> "error", error |-> "File not found"]])]
            /\ req' = [req EXCEPT ![p] = Finished]
       ELSE /\ req' = [req EXCEPT ![p] = Enter("convert", n, ALLOWED_EXTENSIONS)]
            /\ resp' = [resp EXCEPT ![p] = NoResp]
    /\ UNCHANGED files

(* GET /export/pdf|json|xml/<filename>, up to the call of                  *)
(* extract_text_with_tesseract                                             *)
export(p, fmt, n) ==
    /\ UNCHANGED outsidePipeline
    /\ Ready(p)
    /\ IF ~Exists(files, n)
       THEN /\ resp' = [resp EXCEPT ![p] = Response(fmt, n, TRUE, FALSE, Abort404)]
            /\ req' = [req EXCEPT ![p] = Finished]
       ELSE /\ req' = [req EXCEPT ![p] = Enter(fmt, n, ALLOWED_EXTENSIONS)]
            /\ resp' = [resp EXCEPT ![p] = NoResp]
    /\ UNCHANGED files

(* preprocess_image: cv2.imread, the filters, cv2.imwrite *)
preprocess_image(p) ==
    LET r == req[p]
    IN  /\ r.pc = "preprocess"
        /\ UNCHANGED outsidePipeline
        /\ IF files[r.name] \notin Decodable
           THEN /\ req' = [req EXCEPT ![p] = [r EXCEPT !.pc = "ocr", !.path = r.name]]
                /\ UNCHANGED files
           ELSE /\ files' = [files EXCEPT ![ProcessedPath(r.name)] = "binary"]
                /\ req' = [req EXCEPT ![p] =
                       [r EXCEPT !.pc = "ocr", !.path = ProcessedPath(r.name),
                                 !.wrote = TRUE]]
        /\ UNCHANGED resp

(* preprocess_image raises (a cv2.error in a filter or in imwrite) *)
preprocess_raises(p) ==
    LET r == req[p]
    IN  /\ r.pc = "preprocess"
        /\ UNCHANGED outsidePipeline
        /\ files[r.name] \in Decodable
        /\ req' = [req EXCEPT ![p] = ExceptClause(r, "cv2.error")]
        /\ UNCHANGED <<files, resp>>

(* pytesseract.image_to_string(processed_path): the backend reads the file *)
image_to_string(p) ==
    LET r == req[p]
    IN  /\ r.pc = "ocr"
        /\ UNCHANGED outsidePipeline
        /\ \/ /\ Exists(files, r.path)
              /\ \E t \in OcrOutputs :
                    req' = [req EXCEPT ![p] = [r EXCEPT !.pc = "check", !.raw = t]]
           \/ req' = [req EXCEPT ![p] = ExceptClause(r, "TesseractError")]
        /\ UNCHANGED <<files, resp>>

(* "if os.path.exists(processed_path) and processed_path != image_path",   *)
(* and the return of text.strip() when the test fails                      *)
check_processed(p) ==
    LET r == req[p]
    IN  /\ r.pc = "check"
        /\ UNCHANGED outsidePipeline
        /\ IF Exists(files, r.path) /\ r.path # r.name
           THEN req' = [req EXCEPT ![p] = [r EXCEPT !.pc = "remove"]]
           ELSE req' = [req EXCEPT ![p] =
                    [r EXCEPT !.pc = "extracted", !.text = Strip(r.raw)]]
        /\ UNCHANGED <<files, resp>>

(* os.remove(processed_path) and the return of text.strip() *)
remove_processed(p) ==
    LET r == req[p]
    IN  /\ r.pc = "remove"
        /\ UNCHANGED outsidePipeline
        /\ IF Exists(files, r.path)
           THEN /\ files' = [files EXCEPT ![r.path] = Absent]
                /\ req' = [req EXCEPT ![p] =
                       [r EXCEPT !.pc = "extracted", !.text = Strip(r.raw)]]
           ELSE /\ req' = [req EXCEPT ![p] = ExceptClause(r, "FileNotFoundError")]
                /\ UNCHANGED files
        /\ UNCHANGED resp

\* what each handler builds from the text extract_text_with_tesseract returned
Reply(route, filename, text) ==
    [status |-> 200,
     body |-> CASE route = "convert" -> [kind |-> "text", text |-> text]
                [] route = "pdf" -> PdfBody(filename, text)
                [] route = "json" -> JsonBody(filename, text)
                [] route = "xml" -> XmlBody(filename, text)]

(* the rest of /convert and /export/*: the response built from the text *)
respond(p) ==
    LET r == req[p]
    IN  /\ r.pc = "extracted"
        /\ UNCHANGED outsidePipeline
        /\ resp' = [resp EXCEPT ![p] =
               Response(r.route, r.name, FALSE, r.failed, Reply(r.route, r.name, r.text))]
        /\ req' = [req EXCEPT ![p] = Finished]
        /\ UNCHANGED files

(* extract_text_from_image, up to the call of resize_image *)
extract_text_from_image(p, n) ==
    LET message == validate_image_file(files, n, EXTRACT_EXTENSIONS)
    IN  /\ Ready(p)
        /\ UNCHANGED outsidePipeline
        /\ IF message # "Valid image file"
           THEN /\ resp' = [resp EXCEPT ![p] =
                        Response("extract", n, ~Exists(files, n), FALSE,
                                 [status |-> 0,
                                  body |-> [kind |-> "error", error |-> message]])]
                /\ req' = [req EXCEPT ![p] = Finished]
           ELSE /\ req' = [req EXCEPT ![p] =
                        [Enter("extract", n, EXTRACT_EXTENSIONS) EXCEPT !.pc = "resize"]]
                /\ resp' = [resp EXCEPT ![p] = NoResp]
        /\ UNCHANGED files

\* resize_image: what the file holds after the call
resize_image(content) == IF content = "large" THEN "resized" ELSE content

(* resize_image(image_path) and the return of the placeholder text *)
resize_and_return(p) ==
    LET r == req[p]
    IN  /\ r.pc = "resize"
        /\ UNCHANGED outsidePipeline
        /\ files' = [files EXCEPT ![r.name] = resize_image(@)]
        /\ resp' = [resp EXCEPT ![p] =
               Response("extract", r.name, FALSE, FALSE,
                        [status |-> 0, body |-> [kind |-> "text", text |-> MockText]])]
        /\ req' = [req EXCEPT ![p] = Finished]

\* what a client can send as a file
Uploadable == {"small", "large", "junk"}

(* POST /upload: stored when the extension is allowed, under a fresh name *)
upload_file(n, c) ==
    /\ UNCHANGED outsidePipeline
    /\ allowed_file(n)
    /\ ~Exists(files, n)
    /\ files' = [files EXCEPT ![n] = c]
    /\ UNCHANGED <<req, resp>>

(* POST /capture: the decoded bytes stored as capture_<uuid>.jpg *)
capture_image(c) ==
    /\ UNCHANGED outsidePipeline
    /\ ~Exists(files, Capture)
    /\ files' = [files EXCEPT ![Capture] = c]
    /\ UNCHANGED <<req, resp>>

(* save_uploaded_file: any file stored under a fresh name *)
save_uploaded_file(n, c) ==
    /\ UNCHANGED outsidePipeline
    /\ ~Exists(files, n)
    /\ files' = [files EXCEPT ![n] = c]
    /\ UNCHANGED <<req, resp>>

(* POST /cleanup: every file of the upload folder removed *)
cleanup(fs) == [x \in Paths |-> Absent]

cleanup_route ==
    /\ UNCHANGED outsidePipeline
    /\ \E x \in Paths : Exists(files, x)
    /\ files' = cleanup(files)
    /\ UNCHANGED <<req, resp>>

Next ==
    \/ \E p \in Serial, n \in Names, h \in BOOLEAN : convert_image_to_text(p, n, h)
    \/ \E p \in Serial, fmt \in {"pdf", "json", "xml"}, n \in Names : export(p, fmt, n)
    \/ \E p \in Serial : preprocess_image(p)
    \/ \E p \in Serial : preprocess_raises(p)
    \/ \E p \in Serial : image_to_string(p)
    \/ \E p \in Serial : check_processed(p)
    \/ \E p \in Serial : remove_processed(p)
    \/ \E p \in Serial : respond(p)
    \/ \E p \in Serial, n \in Names : extract_text_from_image(p, n)
    \/ \E p \in Serial : resize_and_return(p)
    \/ \E n \in Names, c \in Uploadable : upload_file(n, c)
    \/ \E c \in Uploadable : capture_image(c)
    \/ \E n \in Names, c \in Uploadable : save_uploaded_file(n, c)
    \/ cleanup_route

Spec == Init /\ [][Next]_vars

----------------------------------------------------------------------------
(* SpecExport: the exporters applied to a text *)

\* the longest text enumerated character by character
MaxLen == 4

\* the most lines of a text built to fill pages
MaxLines == 100

Alphabet == {"a", "W", " ", "\n"}

ShortTexts == UNION {[1..k -> Alphabet] : k \in 0..MaxLen}

\* n one-word lines
Tall(n) == [i \in 1..(2 * n - 1) |-> IF i % 2 = 1 THEN "a" ELSE "\n"]

Docs == ShortTexts \cup {Tall(n) : n \in 1..MaxLines}

InitExportSpec ==
    /\ InitPipeline
    /\ InitCleanup
    /\ InitManager
    /\ doc \in Docs
    /\ artifact = NoArtifact

Built(by, body) == [body EXCEPT !.kind = body.kind] @@ [by |-> by]

(* export_pdf on the text the OCR step returned, up to its loops *)
ApplyExportPdf ==
    /\ artifact = NoArtifact
    /\ artifact' = Built("export_pdf", StartExportPdf(Photo, Strip(doc)))
    /\ UNCHANGED <<doc, outsideExport>>

(* one iteration of the loops of export_pdf or convert_to_pdf *)
PdfLoop ==
    /\ artifact.kind = "pdf"
    /\ artifact.phase # "done"
    /\ artifact' = PdfStep(artifact)
    /\ UNCHANGED <<doc, outsideExport>>

(* export_json on the text the OCR step returned *)
ApplyExportJson ==
    /\ artifact = NoArtifact
    /\ artifact' = Built("export_json", JsonBody(Photo, Strip(doc)))
    /\ UNCHANGED <<doc, outsideExport>>

(* export_xml on the text the OCR step returned *)
ApplyExportXml ==
    /\ artifact = NoArtifact
    /\ artifact' = Built("export_xml", XmlBody(Photo, Strip(doc)))
    /\ UNCHANGED <<doc, outsideExport>>

(* convert_to_pdf, up to its loop *)
ApplyConvertToPdf ==
    /\ artifact = NoArtifact
    /\ artifact' = Built("convert_to_pdf", StartConvertToPdf(doc, Photo))
    /\ UNCHANGED <<doc, outsideExport>>

ApplyConvertToJson ==
    /\ artifact = NoArtifact
    /\ artifact' = Built("convert_to_json", convert_to_json(doc, Photo))
    /\ UNCHANGED <<doc, outsideExport>>

ApplyConvertToXml ==
    /\ artifact = NoArtifact
    /\ artifact' = Built("convert_to_xml", convert_to_xml(doc, Photo))
    /\ UNCHANGED <<doc, outsideExport>>

NextExport ==
    \/ ApplyExportPdf
    \/ PdfLoop
    \/ ApplyExportJson
    \/ ApplyExportXml
    \/ ApplyConvertToPdf
    \/ ApplyConvertToJson
    \/ ApplyConvertToXml

SpecExport == InitExportSpec /\ [][NextExport]_vars

----------------------------------------------------------------------------
(* Properties of the exporters, checked under SpecExport *)

NewlineCount(t) == Cardinality({i \in 1..Len(t) : t[i] = "\n"})

\* the positions where a whitespace-separated token ends
TokenEnds(t) ==
    {i \in 1..Len(t) : t[i] \notin Whitespace /\ (i = Len(t) \/ t[i + 1] \in Whitespace)}

\* C5: both JSON exporters report character_count = length of the text and
\* line_count = the number of newline-delimited segments, a trailing empty
\* one counted; export_json reports word_count = the number of
\* whitespace-separated tokens; the empty text gives 0, 0 and 1.
C5_JsonCounts ==
    artifact.kind = "json" =>
        /\ artifact.character_count = Cardinality(DOMAIN artifact.text)
        /\ artifact.line_count = NewlineCount(artifact.text) + 1
        /\ artifact.by = "export_json" =>
              artifact.word_count = Cardinality(TokenEnds(artifact.text))
        /\ artifact.text = <<>> =>
              /\ artifact.character_count = 0
              /\ artifact.line_count = 1
              /\ artifact.by = "export_json" => artifact.word_count = 0

\* C5 witness: convert_to_json on a text that ends in a newline after two
\* words: the trailing empty segment is counted.
C5_Witness ==
    /\ artifact.kind = "json"
    /\ artifact.by = "convert_to_json"
    /\ artifact.text = <<"a", " ", "a", "\n">>
    /\ artifact.line_count = 2
    /\ artifact.character_count = 4

\* the words of a sequence of strings, in order
RECURSIVE WordsOf(_)
WordsOf(strings) ==
    IF strings = <<>> THEN <<>>
    ELSE SplitWhitespace(Head(strings)) \o WordsOf(Tail(strings))

\* C6: in the PDF of export_pdf and of convert_to_pdf every line is less than
\* 450 points wide and the lines carry the words of the text in their order,
\* none dropped or duplicated.
C6_WrappedLinesFit ==
    (artifact.kind = "pdf" /\ artifact.phase = "done") =>
        /\ \A i \in 1..Len(artifact.lines) : stringWidth(artifact.lines[i]) < PageBudget
        /\ WordsOf(artifact.lines) = SplitWhitespace(IF artifact.by = "export_pdf"
                                                    THEN Strip(doc) ELSE doc)

\* C7: every line is drawn once and in order, at 50 <= y <= the start offset
\* (750, or 760 on the first page under the header), successive lines of a
\* page 15 points apart, and a page is started, its cursor back at 750,
\* exactly when the cursor has fallen below 50.
C7_Pagination ==
    artifact.kind = "pdf" =>
        LET d == artifact.drawn
        IN  /\ artifact.phase = "done" => Len(d) = Len(artifact.lines)
            /\ \A i \in 1..Len(d) :
                  /\ d[i].line = artifact.lines[i]
                  /\ 50 <= d[i].y
                  /\ d[i].y <= (IF d[i].page = 1 THEN artifact.start ELSE 750)
            /\ Len(d) > 0 => (d[1].page = 1 /\ d[1].y = artifact.start)
            /\ \A i \in 1..(Len(d) - 1) :
                  IF d[i].y - 15 < 50
                  THEN d[i + 1].page = d[i].page + 1 /\ d[i + 1].y = 750
                  ELSE d[i + 1].page = d[i].page /\ d[i + 1].y = d[i].y - 15

\* C7 witness: convert_to_pdf has drawn past the first page, whose last line
\* sits at 55.
C7_Witness ==
    /\ artifact.kind = "pdf"
    /\ artifact.phase = "done"
    /\ artifact.by = "convert_to_pdf"
    /\ \E i \in 1..(Len(artifact.drawn) - 1) :
          /\ artifact.drawn[i].page = 1
          /\ artifact.drawn[i].y = 55
          /\ artifact.drawn[i + 1].page = 2
          /\ artifact.drawn[i + 1].y = 750

----------------------------------------------------------------------------
(* SpecCleanup: cleanup_files(upload_folder, max_age_minutes) *)

\* the clock counts ticks, the resolution of datetime.now() and of a file's
\* modification time; this many ticks make a minute
TicksPerMinute == 60

\* the ticks the clock moves one at a time, before and after the leap
MaxFineTicks == 2

\* the leap of the clock that ages the files to the largest threshold
Era == 10000 * TicksPerMinute

\* timedelta(minutes=m), in ticks
timedelta(m) == m * TicksPerMinute

\* the thresholds cleanup_files is called with: 0, the default, 10000
MaxAges == {0, 60, 10000}

\* os.path.isfile
IsFile(fs, e) == fs[e].kind = "file"

RegularFiles(fs) == {e \in Entries : IsFile(fs, e)}

\* os.listdir: the entries of the folder, in any order
Listings(fs) ==
    LET present == {e \in Entries : fs[e].kind # "absent"}
        n == Cardinality(present)
    IN  {l \in [1..n -> present] : \A i, j \in 1..n : l[i] = l[j] => i = j}

\* "if file_age > timedelta(minutes=max_age_minutes)"
Expired(file_age, max_age_minutes) == file_age > timedelta(max_age_minutes)

\* the loop of cleanup_files from the i-th entry of the listing on
RECURSIVE SweepFrom(_, _, _, _, _)
SweepFrom(listing, i, acc, current_time, max_age_minutes) ==
    IF i > Len(listing) THEN acc
    ELSE LET filename == listing[i]
             fs == acc.fs
         IN  IF IsFile(fs, filename)
                  /\ Expired(current_time - fs[filename].mtime, max_age_minutes)
             THEN SweepFrom(listing, i + 1,
                            [fs |-> [fs EXCEPT ![filename] = Gone],
                             deleted_count |-> acc.deleted_count + 1,
                             deleted_files |-> Append(acc.deleted_files, filename)],
                            current_time, max_age_minutes)
             ELSE SweepFrom(listing, i + 1, acc, current_time, max_age_minutes)

InitCleanupSpec ==
    /\ InitPipeline
    /\ InitExport
    /\ InitCleanup
    /\ InitManager

(* the clock ticks *)
Tick ==
    /\ now % Era < MaxFineTicks
    /\ now' = now + 1
    /\ UNCHANGED <<folder, sweep, report, outsideCleanup>>

(* a week passes *)
Leap ==
    /\ now < Era
    /\ now' = now + Era
    /\ UNCHANGED <<folder, sweep, report, outsideCleanup>>

(* save_uploaded_file / save_base64_image: a new file, modified now *)
SaveFile(e) ==
    /\ e # SubDir
    /\ folder[e] = Gone
    /\ folder' = [folder EXCEPT ![e] = [kind |-> "file", mtime |-> now]]
    /\ UNCHANGED <<now, sweep, report, outsideCleanup>>

(* cleanup_files: the folder exists, current_time = datetime.now() *)
cleanup_files_begin(m) ==
    /\ sweep.pc = "idle"
    /\ sweep' = [pc |-> "sweeping", max_age_minutes |-> m, current_time |-> now]
    /\ report' = NoReport
    /\ UNCHANGED <<folder, now, outsideCleanup>>

(* cleanup_files: the loop over os.listdir and the returned dictionary *)
cleanup_files_sweep ==
    /\ sweep.pc = "sweeping"
    /\ \E listing \in Listings(folder) :
         LET end == SweepFrom(listing, 1,
                              [fs |-> folder, deleted_count |-> 0, deleted_files |-> <<>>],
                              sweep.current_time, sweep.max_age_minutes)
         IN  /\ folder' = end.fs
             /\ report' = [kind |-> "ok",
                           deleted_count |-> end.deleted_count,
                           deleted_files |-> end.deleted_files,
                           max_age_minutes |-> sweep.max_age_minutes,
                           current_time |-> sweep.current_time,
                           before |-> folder, after |-> end.fs]
    /\ sweep' = NoSweep
    /\ UNCHANGED <<now, outsideCleanup>>

NextCleanup ==
    \/ Tick
    \/ Leap
    \/ \E e \in Entries : SaveFile(e)
    \/ \E m \in MaxAges : cleanup_files_begin(m)
    \/ cleanup_files_sweep

SpecCleanup == InitCleanupSpec /\ [][NextCleanup]_vars

----------------------------------------------------------------------------
(* Properties of cleanup_files, checked under SpecCleanup *)

Range(f) == {f[i] : i \in DOMAIN f}

\* C8: with max_age_minutes = 0 a call deletes every regular file of the
\* folder whatever its modification time; with 10000 it deletes no file
\* modified less than a minute before the clock reading; the files deleted are those listed in
\* deleted_files, and deleted_count is their number.
C8_CleanupContract ==
    report.kind = "ok" =>
        LET deleted == RegularFiles(report.before) \ RegularFiles(report.after)
        IN  /\ report.max_age_minutes = 0 => RegularFiles(report.after) = {}
            /\ report.max_age_minutes = 10000 =>
                  \A e \in RegularFiles(report.before) :
                      report.current_time - report.before[e].mtime < TicksPerMinute
                          => e \in RegularFiles(report.after)
            /\ Range(report.deleted_files) = deleted
            /\ report.deleted_count = Cardinality(deleted)
            /\ Len(report.deleted_files) = report.deleted_count

----------------------------------------------------------------------------
(* SpecConc: two concurrent requests for one stored image *)

\* the image both requests name
Shared == Photo

\* what the stored image may hold
SharedContents == {"small", "large", "junk"}

InitConc ==
    /\ \E c \in SharedContents :
          files = [x \in Paths |-> IF x = Shared THEN c ELSE Absent]
    /\ req = [p \in Workers |-> Idle]
    /\ resp = [p \in Workers |-> NoResp]
    /\ InitExport
    /\ InitCleanup
    /\ InitManager

(* a worker thread takes its request: POST /convert or GET /export/<fmt> *)
BeginConvert(p) ==
    /\ req[p].pc = "idle"
    /\ convert_image_to_text(p, Shared, TRUE)

BeginExport(p, fmt) ==
    /\ req[p].pc = "idle"
    /\ export(p, fmt, Shared)

NextConc ==
    \E p \in Workers :
        \/ BeginConvert(p)
        \/ \E fmt \in {"pdf", "json", "xml"} : BeginExport(p, fmt)
        \/ preprocess_image(p)
        \/ preprocess_raises(p)
        \/ image_to_string(p)
        \/ check_processed(p)
        \/ remove_processed(p)
        \/ respond(p)

SpecConc == InitConc /\ [][NextConc]_vars

\* C12: with two requests running on the same stored image, the derived
\* file a request hands to the OCR backend exists whenever the backend may
\* read it, and a request whose OCR backend succeeded does not end in the
\* sentinel.
C12_NoInterference ==
    \A p \in Workers :
        /\ (req[p].pc = "ocr" /\ req[p].wrote) => Exists(files, req[p].path)
        /\ (req[p].pc = "extracted" /\ req[p].failed) =>
               req[p].error \in {"cv2.error", "TesseractError"}

----------------------------------------------------------------------------
(* SpecManager: ConversionManager *)

\* the most requests created in a run
MaxRequests == 2

\* the last hour the clock reaches
MaxHours == 2

\* the statuses the comment of ConversionRequest.__init__ lists
Statuses == {"pending", "processing", "completed", "failed"}

\* what update_request is called with as status: any str
StatusArgs == Statuses \cup {"done"}

\* what update_request is called with as text_result
TextArgs == {"text"}

\* the thresholds cleanup_old_requests is called with: 0, 1 and the default
AgeLimits == {0, 1, 24}

Registered(rs, f) == rs[f].status # "unregistered"

\* ConversionRequest.__init__
ConversionRequest(filename, original_path, id, t) ==
    [id |-> id, filename |-> filename, original_path |-> original_path,
     text_result |-> "None", created_at |-> t, processed_at |-> 0 - 1,
     status |-> "pending", wasProcessing |-> FALSE]

\* an update_request that registers the filename when it is missing
update_request_upsert(rs, filename, text_result, status, t) ==
    [requests |-> [rs EXCEPT ![filename] =
                      [@ EXCEPT !.text_result = text_result, !.status = status,
                                !.processed_at = t,
                                !.wasProcessing = @ \/ status = "processing"]],
     value |-> TRUE]

\* ConversionManager.update_request: the registry after the call and the
\* value returned
update_request(rs, filename, text_result, status, t) ==
    IF Registered(rs, filename)
    THEN [requests |-> [rs EXCEPT ![filename] =
                           [@ EXCEPT !.text_result = text_result, !.status = status,
                                     !.processed_at = t,
                                     !.wasProcessing = @ \/ status = "processing"]],
          value |-> TRUE]
    ELSE [requests |-> rs, value |-> FALSE]

\* ConversionManager.cleanup_old_requests: the registry after the call
cleanup_old_requests(rs, max_age_hours, current_time) ==
    LET to_remove == {f \in ManagerFiles :
                        Registered(rs, f) /\ current_time - rs[f].created_at > max_age_hours}
    IN  [f \in ManagerFiles |-> IF f \in to_remove THEN Unregistered ELSE rs[f]]

InitManagerSpec ==
    /\ InitPipeline
    /\ InitExport
    /\ InitCleanup
    /\ InitManager

(* an hour passes *)
HourPasses ==
    /\ hour < MaxHours
    /\ hour' = hour + 1
    /\ UNCHANGED <<requests, nextId, ret, outsideManager>>

(* manager.create_request(filename, filepath) *)
CreateRequest(f) ==
    /\ nextId <= MaxRequests
    /\ requests' = [requests EXCEPT ![f] = ConversionRequest(f, "uploads/" \o f, nextId, hour)]
    /\ nextId' = nextId + 1
    /\ ret' = [op |-> "create", filename |-> f, value |-> TRUE]
    /\ UNCHANGED <<hour, outsideManager>>

(* manager.update_request(filename, text_result, status) *)
UpdateRequest(f, text, status) ==
    LET out == update_request(requests, f, text, status, hour)
    IN  /\ requests' = out.requests
        /\ ret' = [op |-> "update", filename |-> f, value |-> out.value]
        /\ UNCHANGED <<hour, nextId, outsideManager>>

(* manager.cleanup_old_requests(max_age_hours) *)
CleanupOldRequests(m) ==
    /\ requests' = cleanup_old_requests(requests, m, hour)
    /\ ret' = [op |-> "cleanup", filename |-> "", value |-> TRUE]
    /\ UNCHANGED <<hour, nextId, outsideManager>>

NextManager ==
    \/ HourPasses
    \/ \E f \in ManagerFiles : CreateRequest(f)
    \/ \E f \in ManagerFiles, text \in TextArgs, status \in StatusArgs :
          UpdateRequest(f, text, status)
    \/ \E m \in AgeLimits : CleanupOldRequests(m)

SpecManager == InitManagerSpec /\ [][NextManager]_vars

----------------------------------------------------------------------------
(* Properties of ConversionManager, checked under SpecManager *)

\* C11: every registered request has one of the four statuses; after
\* create_request the filename has one request, pending and with no text
\* result; a request is completed or failed only after it was processing.
C11_StatusLifecycle ==
    /\ \A f \in ManagerFiles :
          Registered(requests, f) =>
              /\ requests[f].status \in Statuses
              /\ requests[f].status \in {"completed", "failed"} => requests[f].wasProcessing
    /\ ret.op = "create" =>
          /\ requests[ret.filename].filename = ret.filename
          /\ requests[ret.filename].status = "pending"
          /\ requests[ret.filename].text_result = "None"

\* C13: update_request for a filename that is not registered returns False
\* and changes nothing; for a registered filename it returns True and changes
\* at most that request's text_result, status and processed_at.
C13_UpdateRequestFrame ==
    [][(ret'.op = "update" /\ (ret' # ret \/ requests' # requests)) =>
          LET f == ret'.filename
          IN  IF Registered(requests, f)
              THEN /\ ret'.value = TRUE
                   /\ \A g \in ManagerFiles \ {f} : requests'[g] = requests[g]
                   /\ requests'[f].id = requests[f].id
                   /\ requests'[f].filename = requests[f].filename
                   /\ requests'[f].original_path = requests[f].original_path
                   /\ requests'[f].created_at = requests[f].created_at
              ELSE /\ ret'.value = FALSE
                   /\ requests' = requests]_vars

\* C13 witness: update_request has returned False for a filename that
\* cleanup_old_requests removed, while another request stays registered.
C13_Witness ==
    /\ ret.op = "update"
    /\ ret.value = FALSE
    /\ ~Registered(requests, ret.filename)
    /\ nextId > MaxRequests
    /\ \E g \in ManagerFiles : Registered(requests, g) /\ requests[g].status = "processing"

----------------------------------------------------------------------------
(* Properties of the extraction pipeline, checked under Spec *)

HttpRoutes == {"convert", "pdf", "json", "xml"}

\* C1: when extract_text_with_tesseract returns, on any exit path, the
\* processed_<basename> file that run wrote is no longer in the upload folder.
C1_DerivedFileRemovedOnEveryExit ==
    \A p \in Workers :
        (req[p].pc = "extracted" /\ req[p].wrote)
            => ~Exists(files, ProcessedPath(req[p].name))

\* C2: a /convert or /export request for a filename absent from the upload
\* folder ends with status 404, and the OCR step is not entered for it.
C2_AbsentFileIs404 ==
    \A p \in Workers :
        (resp[p].route \in HttpRoutes /\ resp[p].absentAtEntry)
            => (resp[p].status = 404 /\ req[p].pc = "done")

\* r is t without its leading and trailing whitespace, nothing else changed
IsStripOf(r, t) ==
    \E i \in 1..(Len(t) + 1), j \in 0..Len(t) :
        /\ r = SubSeq(t, i, j)
        /\ \A k \in 1..(i - 1) : t[k] \in Whitespace
        /\ \A k \in (j + 1)..Len(t) : t[k] \in Whitespace
        /\ r # <<>> => (r[1] \notin Whitespace /\ r[Len(r)] \notin Whitespace)

\* C3: extract_text_with_tesseract never leaves by an exception; what it
\* returns is the sentinel or the OCR text without its leading and trailing
\* whitespace, whatever preprocessing, the backend and the removal did.
C3_ExtractNeverRaises ==
    \A p \in Workers :
        /\ req[p].pc # "raised"
        /\ req[p].pc = "extracted" =>
              \/ req[p].failed /\ req[p].text = Sentinel
              \/ ~req[p].failed /\ IsStripOf(req[p].text, req[p].raw)

\* C3 witness: the derived file vanished between the existence test and
\* os.remove, and the function returned the sentinel.
C3_Witness ==
    \E p \in Workers :
        /\ req[p].pc = "extracted"
        /\ req[p].error = "FileNotFoundError"
        /\ req[p].text = Sentinel

\* the body of a successful response carries the sentinel as its text
CarriesSentinel(r) ==
    /\ r.status = 200
    /\ \/ r.body.kind \in {"text", "json", "xml"} /\ r.body.text = Sentinel
       \/ r.body.kind = "pdf" /\ r.body.lines = PdfBody(r.name, Sentinel).lines

\* C4: when the OCR step failed, no HTTP handler answers with the sentinel as
\* the text of a successful result.
C4_SentinelIsNotContent ==
    \A p \in Workers :
        (resp[p].route \in HttpRoutes /\ resp[p].failed) => ~CarriesSentinel(resp[p])

\* C9: a request whose asset was absent, of a disallowed extension or not
\* decodable when the request arrived never gets to resizing, preprocessing
\* or OCR.
C9_ValidationShortCircuits ==
    \A p \in Workers :
        req[p].pc \in {"resize", "preprocess", "ocr", "check", "remove", "extracted"}
            => req[p].validAtEntry

\* C10: no step of an extraction or export request changes a stored original.
C10_OriginalNeverModified ==
    [][(\E p \in Workers : req'[p] # req[p])
          => \A n \in Names : files'[n] = files[n]]_vars

====
